---- MODULE Spec2Model ----
(***************************************************************************)
(* Model of src/server.go: the checkout gateway's HTTP handlers.           *)
(*                                                                         *)
(* net/http runs every request in its own goroutine, so each webhook       *)
(* delivery is a process with a program counter that walks through         *)
(* handleWebhook.  A field of a request (method, body, Stripe-Signature    *)
(* header) is drawn at the step where the handler first reads it.  A       *)
(* finished delivery keeps its locals, its response, its log lines, its    *)
(* notifier calls and the stages it passed.  Checkout requests and lookup  *)
(* requests (/config, /checkout-session) share no state with each other,   *)
(* so each kind is served one request after the other.                     *)
(*                                                                         *)
(* webhook.ValidatePayload and webhook.ConstructEvent are stripe-go v72    *)
(* library calls; validatePayload below follows the library routine both   *)
(* of them run (header parse, DefaultTolerance, HMAC comparison).          *)
(***************************************************************************)
EXTENDS Integers, Sequences, FiniteSets, TLC

\* ------------------------------------------------------------- bounds
NumDeliveries == 2      \* concurrent webhook deliveries
MaxTime == 6            \* last instant of the wall clock
MaxQtyLen == 2          \* longest "quantity" form value

\* ---------------------------------------------------- program constants
MaxBodyBytes == 65536   \* const MaxBodyBytes = int64(65536)
DefaultTolerance == 5   \* webhook.DefaultTolerance (300 s), in minutes

StatusOK == 200
StatusSeeOther == 303
StatusBadRequest == 400
StatusMethodNotAllowed == 405
StatusInternalServerError == 500
StatusServiceUnavailable == 503
NoStatus == 0           \* nothing was written to the ResponseWriter

Deliveries == 1..NumDeliveries
\* The timestamps a Stripe-Signature header carries: one that is too old once
\* the clock has ticked, one that stays within the tolerance.
Timestamps == {0, MaxTime - DefaultTolerance}
Clock == DefaultTolerance..MaxTime

\* os.Getenv("STRIPE_WEBHOOK_SECRET"), and another secret a sender may hold
WebhookSecret == "S2"
Secrets == {"S1", "S2"}

\* ------------------------------------------------------------ payloads
\* The events the processor can deliver; an event id identifies its content,
\* so a redelivery carries the same type and data.
Events ==
  { [id |-> "evt_a", type |-> "checkout.session.completed", data |-> "session_a"],
    [id |-> "evt_nopi", type |-> "checkout.session.completed", data |-> "session_nopi"],
    [id |-> "evt_bad", type |-> "checkout.session.completed", data |-> "not_a_session"],
    [id |-> "evt_other", type |-> "payment_intent.created", data |-> "intent"] }

\* A request body: the JSON encoding of an event, or bytes that are not JSON.
Malformed == [id |-> "", type |-> "", data |-> "malformed"]
Payloads == Events \cup {Malformed}
NoEvent == [id |-> "", type |-> "", data |-> ""]     \* stripe.Event{}

\* json.Unmarshal(payload, &event)
UnmarshalEvent(payload) ==
  IF payload = Malformed THEN [err |-> TRUE, event |-> NoEvent]
                         ELSE [err |-> FALSE, event |-> payload]

\* json.Unmarshal(event.Data.Raw, &sessionObj): the decoded stripe.CheckoutSession;
\* PaymentIntent is a pointer, nil when the session carries no payment intent.
NilPI == "nil"
UnmarshalSession(data) ==
  CASE data = "session_a" ->
         [err |-> FALSE, PaymentIntent |-> "pi_a", PaymentStatus |-> "paid",
          AmountTotal |-> 2000, Currency |-> "usd"]
    [] data = "session_nopi" ->
         [err |-> FALSE, PaymentIntent |-> NilPI, PaymentStatus |-> "unpaid",
          AmountTotal |-> 0, Currency |-> "usd"]
    [] OTHER ->
         [err |-> TRUE, PaymentIntent |-> NilPI, PaymentStatus |-> "",
          AmountTotal |-> 0, Currency |-> ""]

\* confirmationEmailData
ConfirmationEmailData(s) ==
  [paymentIntentID |-> s.PaymentIntent, paymentStatus |-> s.PaymentStatus,
   paymentAmount |-> s.AmountTotal, currency |-> s.Currency]

\* ----------------------------------------------------------- signatures
\* HMAC-SHA256 over "{t}.{payload}" keyed by secret, taken as collision free.
ComputeSignature(t, payload, secret) == <<secret, t, payload>>

\* A Stripe-Signature header: absent, unparseable, or t=<t>,v1=<sig>...
NotSignedHeader == [form |-> "empty", t |-> 0, v1 |-> {}]
GarbageHeader == [form |-> "garbage", t |-> 0, v1 |-> {}]
SignedHeader(t, sigs) == [form |-> "signed", t |-> t, v1 |-> sigs]
NoHeader == [form |-> "unread", t |-> 0, v1 |-> {}]

\* The headers a sender can attach to payload: signed with either secret.
HeadersFor(payload) ==
  {NotSignedHeader, GarbageHeader}
  \cup { SignedHeader(t, {ComputeSignature(t, payload, k)}) :
           t \in Timestamps, k \in Secrets }

ErrNil == "nil"
ErrNotSigned == "ErrNotSigned"
ErrInvalidHeader == "ErrInvalidHeader"
ErrTooOld == "ErrTooOld"
ErrNoValidSignature == "ErrNoValidSignature"
Unchecked == "unchecked"

\* validatePayload accepting any header that carries a v1 signature.
validatePayloadAnySignature(payload, header, secret, clock) ==
  CASE header.form = "empty" -> ErrNotSigned
    [] header.form = "garbage" -> ErrInvalidHeader
    [] header.v1 = {} -> ErrNoValidSignature
    [] clock - header.t > DefaultTolerance -> ErrTooOld
    [] OTHER -> ErrNil

\* stripe-go webhook.validatePayload without the tolerance check
\* (what ValidatePayloadIgnoringTolerance runs).
validatePayloadIgnoringTolerance(payload, header, secret, clock) ==
  CASE header.form = "empty" -> ErrNotSigned
    [] header.form = "garbage" -> ErrInvalidHeader
    [] header.v1 = {} -> ErrNoValidSignature
    [] ComputeSignature(header.t, payload, secret) \in header.v1 -> ErrNil
    [] OTHER -> ErrNoValidSignature

\* stripe-go webhook.validatePayload with DefaultTolerance, as run by
\* webhook.ValidatePayload and webhook.ConstructEvent; clock is time.Now().
validatePayload(payload, header, secret, clock) ==
  CASE header.form = "empty" -> ErrNotSigned
    [] header.form = "garbage" -> ErrInvalidHeader
    [] header.v1 = {} -> ErrNoValidSignature
    [] clock - header.t > DefaultTolerance -> ErrTooOld
    [] ComputeSignature(header.t, payload, secret) \in header.v1 -> ErrNil
    [] OTHER -> ErrNoValidSignature

\* ------------------------------------------------------------ checkout
\* The characters a "quantity" form value is made of.
Alphabet == {"0", "1", "2", "9", "-", "+", "a"}
Digits == {"0", "1", "2", "9"}
FormValues == UNION { [1..n -> Alphabet] : n \in 0..MaxQtyLen }

DigitVal(c) == CASE c = "0" -> 0 [] c = "1" -> 1 [] c = "2" -> 2 [] OTHER -> 9

\* strconv.ParseUint(s, 10, 64) on a non-empty string of digits
RECURSIVE DecimalValue(_)
DecimalValue(s) ==
  IF s = <<>> THEN 0
  ELSE 10 * DecimalValue(SubSeq(s, 1, Len(s) - 1)) + DigitVal(s[Len(s)])

\* strconv.ParseInt(s, 10, 64): an optional sign, then one or more decimal
\* digits.  A value needs 19 digits to leave the int64 range, more than
\* MaxQtyLen allows, so ErrRange does not arise.
ParseInt(s) ==
  LET signed == s # <<>> /\ s[1] \in {"+", "-"}
      digits == IF signed THEN SubSeq(s, 2, Len(s)) ELSE s
      neg == signed /\ s[1] = "-"
  IN IF digits = <<>> \/ \E i \in 1..Len(digits) : digits[i] \notin Digits
       THEN [err |-> TRUE, val |-> 0]
       ELSE [err |-> FALSE,
             val |-> IF neg THEN 0 - DecimalValue(digits) ELSE DecimalValue(digits)]

\* os.Getenv("PRICE"), os.Getenv("DOMAIN")
PriceID == "price_1"
DomainURL == "https://shop.example"

\* The params with the quantity of the line item left at one.
CheckoutSessionParamsUnitQuantity(q) ==
  [SuccessURL |-> <<DomainURL, "/html/success.html?session_id={CHECKOUT_SESSION_ID}">>,
   CancelURL |-> <<DomainURL, "/canceled.html">>,
   Mode |-> "payment",
   LineItems |-> << [Quantity |-> 1, Price |-> PriceID] >>]

\* The stripe.CheckoutSessionParams built at lines 88-98.
CheckoutSessionParams(q) ==
  [SuccessURL |-> <<DomainURL, "/html/success.html?session_id={CHECKOUT_SESSION_ID}">>,
   CancelURL |-> <<DomainURL, "/canceled.html">>,
   Mode |-> "payment",
   LineItems |-> << [Quantity |-> q, Price |-> PriceID] >>]

\* The URLs of the hosted checkout pages the processor answers with.
SessionURLs == {"https://checkout.example/c/1", "https://checkout.example/c/2"}

\* ------------------------------------------------------------- state
VARIABLES
  now,        \* the wall clock
  pc,         \* where each delivery's handler goroutine stands
  method,     \* r.Method of the delivery
  bodyLen,    \* the length of the request body the handler set out to read
  event,      \* the handler's local `event`
  hdr,        \* the handler's local `signatureHeader`
  sigErr,     \* the error of the latest signature validation
  status,     \* the status code written to the delivery's ResponseWriter
  body,       \* the response body written
  calls,      \* the Side-Effect Notifier calls made for the delivery, in order
  out,        \* the lines the handler wrote to stdout, stderr and the log
  stages,     \* the processing stages the delivery passed, in order
  cpc,        \* where the checkout request's handler stands
  form,       \* r.PostFormValue("quantity") of the checkout request
  quantity,   \* the handler's local `quantity`
  sessions,   \* the params of the session.New calls made for the request
  cstatus,    \* the status code written to the checkout request
  cbody,      \* the response body, or the Location of a redirect
  cout,       \* what handleCreateCheckoutSession logged
  remote,     \* what session.New returned to the checkout request
  gpc,        \* where the lookup request (/config, /checkout-session) stands
  ghandler,   \* the handler serving the lookup request
  gfailed,    \* the remote lookup (price.Get, session.Get) returned an error
  gstatus,    \* the status code written to the lookup request
  gbody,      \* the response body of the lookup request
  gout        \* what the lookup handler logged

wvars == <<now, pc, method, bodyLen, event, hdr, sigErr, status, body, calls, out, stages>>
cvars == <<cpc, form, quantity, sessions, cstatus, cbody, cout, remote>>
gvars == <<gpc, ghandler, gfailed, gstatus, gbody, gout>>
vars == <<wvars, cvars, gvars>>

Line(stream, what) == [stream |-> stream, what |-> what]

\* s, err of session.New before the call
NoSession == [ok |-> FALSE, url |-> ""]

Init ==
  /\ now \in Clock
  /\ pc = [d \in Deliveries |-> "idle"]
  /\ method = [d \in Deliveries |-> ""]
  /\ bodyLen = [d \in Deliveries |-> 0]
  /\ event = [d \in Deliveries |-> NoEvent]
  /\ hdr = [d \in Deliveries |-> NoHeader]
  /\ sigErr = [d \in Deliveries |-> Unchecked]
  /\ status = [d \in Deliveries |-> NoStatus]
  /\ body = [d \in Deliveries |-> ""]
  /\ calls = [d \in Deliveries |-> <<>>]
  /\ out = [d \in Deliveries |-> <<>>]
  /\ stages = [d \in Deliveries |-> <<>>]
  /\ cpc = "idle"
  /\ form = <<>>
  /\ quantity = 0
  /\ sessions = <<>>
  /\ cstatus = NoStatus
  /\ cbody = ""
  /\ cout = <<>>
  /\ remote = NoSession
  /\ gpc = "idle"
  /\ ghandler = ""
  /\ gfailed = FALSE
  /\ gstatus = NoStatus
  /\ gbody = ""
  /\ gout = <<>>

\* Time passes.
Tick ==
  /\ now < MaxTime
  /\ now' = now + 1
  /\ UNCHANGED <<pc, method, bodyLen, event, hdr, sigErr, status, body, calls, out, stages>>
  /\ UNCHANGED <<cvars, gvars>>

\* The handler returns without having written the status line: net/http
\* answers 200 whatever `code` was meant.
RespondImplicitOK(d, code, text, lines, stage) ==
  /\ pc' = [pc EXCEPT ![d] = "done"]
  /\ status' = [status EXCEPT ![d] = StatusOK]
  /\ body' = [body EXCEPT ![d] = text]
  /\ out' = [out EXCEPT ![d] = out[d] \o lines]
  /\ stages' = [stages EXCEPT ![d] = stages[d] \o stage]

\* The handler returns having written `code` and `text`.
Respond(d, code, text, lines, stage) ==
  /\ pc' = [pc EXCEPT ![d] = "done"]
  /\ status' = [status EXCEPT ![d] = code]
  /\ body' = [body EXCEPT ![d] = text]
  /\ out' = [out EXCEPT ![d] = out[d] \o lines]
  /\ stages' = [stages EXCEPT ![d] = stages[d] \o stage]

\* The cap applied one byte early.
BodyTooLargeAtCap(len) == len >= MaxBodyBytes

\* handleWebhook, lines 112-115: ioutil.ReadAll of the http.MaxBytesReader
\* fails when the body holds more than MaxBodyBytes bytes.
BodyTooLarge(len) == len > MaxBodyBytes

\* handleWebhook, lines 108-127: method check, body read, first JSON decode.
\* method, bodyLen and payload are the request as it arrives.
ReceiveWebhook(d, m, len, payload) ==
  /\ pc[d] = "idle"
  /\ UNCHANGED <<now, hdr, sigErr, calls>>
  /\ UNCHANGED <<cvars, gvars>>
  /\ method' = [method EXCEPT ![d] = m]
  /\ bodyLen' = [bodyLen EXCEPT ![d] = IF m = "POST" THEN len ELSE 0]
  /\ IF m # "POST"
       THEN /\ Respond(d, StatusMethodNotAllowed, "Method Not Allowed", <<>>, <<>>)
            /\ UNCHANGED event
       ELSE IF BodyTooLarge(len)
         THEN /\ Respond(d, StatusServiceUnavailable, "",
                         <<Line("stderr", "Error reading request body")>>,
                         <<"Received">>)
              /\ UNCHANGED event
         ELSE IF UnmarshalEvent(payload).err
           THEN /\ Respond(d, StatusBadRequest, "",
                           <<Line("stderr", "Webhook error while parsing basic request")>>,
                           <<"Received", "ParseFailed">>)
                /\ event' = [event EXCEPT ![d] = UnmarshalEvent(payload).event]
           ELSE /\ pc' = [pc EXCEPT ![d] = "validate"]
                /\ event' = [event EXCEPT ![d] = UnmarshalEvent(payload).event]
                /\ stages' = [stages EXCEPT ![d] = <<"Received", "Parsed">>]
                /\ UNCHANGED <<status, body, out>>

\* handleWebhook, lines 129-138: read and print the header and the secret,
\* then webhook.ValidatePayload.
ValidateSignature(d, header) ==
  /\ pc[d] = "validate"
  /\ hdr' = [hdr EXCEPT ![d] = header]
  /\ LET err == validatePayload(event[d], header, WebhookSecret, now)
         printed == <<Line("stdout", "signatureHeader"), Line("stdout", "webhookSecret")>>
     IN /\ sigErr' = [sigErr EXCEPT ![d] = err]
        /\ IF err # ErrNil
             THEN Respond(d, StatusBadRequest, "",
                          printed \o <<Line("stderr", "Webhook error while validating signature")>>,
                          <<"SignatureRejected">>)
             ELSE /\ pc' = [pc EXCEPT ![d] = "construct"]
                  /\ out' = [out EXCEPT ![d] = out[d] \o printed]
                  /\ stages' = [stages EXCEPT ![d] = stages[d] \o <<"SignatureValidated">>]
                  /\ UNCHANGED <<status, body>>
  /\ UNCHANGED <<now, event, calls>>
  /\ UNCHANGED <<method, bodyLen, cvars, gvars>>

\* handleWebhook, lines 140-145: webhook.ConstructEvent validates the payload
\* again, at the time of this call, and decodes it.
ConstructEvent(d) ==
  /\ pc[d] = "construct"
  /\ LET err == validatePayload(event[d], hdr[d], WebhookSecret, now)
     IN /\ sigErr' = [sigErr EXCEPT ![d] = err]
        /\ IF err # ErrNil
             THEN Respond(d, StatusBadRequest, err,
                          <<Line("log", "webhook.ConstructEvent")>>,
                          <<"SignatureRejected">>)
             ELSE /\ pc' = [pc EXCEPT ![d] = "dispatch"]
                  /\ stages' = [stages EXCEPT ![d] = stages[d] \o <<"Constructed">>]
                  /\ UNCHANGED <<status, body, out>>
  /\ UNCHANGED <<now, event, hdr, calls>>
  /\ UNCHANGED <<method, bodyLen, cvars, gvars>>

\* The event ids the program has recorded as processed: handleWebhook keeps
\* no record of the events it dispatched, in memory or elsewhere.
ProcessedEventLog == {}

\* The type test skipped: every verified event is dispatched.
IsCheckoutCompletedAlways(e) == TRUE

\* handleWebhook, line 147: event.Type == "checkout.session.completed"
IsCheckoutCompleted(e) == e.type = "checkout.session.completed"

\* handleWebhook, lines 147-167 and 176-178: route by event type; decode the
\* session and print its fields.  sessionObj.PaymentIntent.ID dereferences a
\* nil pointer when the session has no payment intent: the goroutine panics,
\* net/http recovers it and closes the connection without a response.
Dispatch(d) ==
  /\ pc[d] = "dispatch"
  /\ UNCHANGED <<now, event, hdr, sigErr, calls>>
  /\ UNCHANGED <<method, bodyLen, cvars, gvars>>
  /\ IF IsCheckoutCompleted(event[d])
       THEN LET s == UnmarshalSession(event[d].data)
                hello == <<Line("stdout", "Checkout Session completed!")>>
            IN IF s.err
                 THEN Respond(d, StatusInternalServerError, "",
                              hello \o <<Line("stderr", "Failed to parse session object")>>,
                              <<"Failed">>)
                 ELSE IF s.PaymentIntent = NilPI
                   THEN /\ pc' = [pc EXCEPT ![d] = "panicked"]
                        /\ out' = [out EXCEPT ![d] =
                                     out[d] \o hello \o <<Line("log", "http: panic serving")>>]
                        /\ UNCHANGED <<status, body, stages>>
                   ELSE /\ pc' = [pc EXCEPT ![d] = "email"]
                        /\ out' = [out EXCEPT ![d] =
                                     out[d] \o hello \o <<Line("stdout", "Payment Intent ID"),
                                                          Line("stdout", "Payment Status"),
                                                          Line("stdout", "Payment Amount"),
                                                          Line("stdout", "Currency")>>]
                        /\ stages' = [stages EXCEPT ![d] = stages[d] \o <<"Dispatched">>]
                        /\ UNCHANGED <<status, body>>
       ELSE \* the handler returns without writing: net/http answers 200
            Respond(d, StatusOK, "", <<Line("stdout", "Received event of type")>>, <<>>)

\* The Side-Effect Notifier is called with confirmationEmailData.
Notify(d, fn) ==
  /\ calls' = [calls EXCEPT ![d] =
                 Append(calls[d],
                        [fn |-> fn,
                         arg |-> ConfirmationEmailData(UnmarshalSession(event[d].data))])]

\* The email sent and the payment status update left out.
SendConfirmationEmailOnly(d) ==
  /\ pc[d] = "email"
  /\ Notify(d, "sendConfirmationEmail")
  /\ pc' = [pc EXCEPT ![d] = "write"]
  /\ out' = [out EXCEPT ![d] = Append(out[d], Line("stdout", "Sending confirmation email..."))]
  /\ UNCHANGED <<now, event, hdr, sigErr, status, body, stages>>
  /\ UNCHANGED <<method, bodyLen, cvars, gvars>>

\* handleWebhook, line 169, and sendConfirmationEmail.
SendConfirmationEmail(d) ==
  /\ pc[d] = "email"
  /\ Notify(d, "sendConfirmationEmail")
  /\ pc' = [pc EXCEPT ![d] = "update"]
  /\ out' = [out EXCEPT ![d] = Append(out[d], Line("stdout", "Sending confirmation email..."))]
  /\ UNCHANGED <<now, event, hdr, sigErr, status, body, stages>>
  /\ UNCHANGED <<method, bodyLen, cvars, gvars>>

\* handleWebhook, line 170, and updatePaymentStatus.
UpdatePaymentStatus(d) ==
  /\ pc[d] = "update"
  /\ Notify(d, "updatePaymentStatus")
  /\ pc' = [pc EXCEPT ![d] = "write"]
  /\ out' = [out EXCEPT ![d] = Append(out[d], Line("stdout", "Updating payment status..."))]
  /\ UNCHANGED <<now, event, hdr, sigErr, status, body, stages>>
  /\ UNCHANGED <<method, bodyLen, cvars, gvars>>

\* A success message that tells a repeated delivery from the first one.
SuccessMessageRepeat(d) ==
  IF \E o \in Deliveries \ {d} :
       pc[o] = "done" /\ event[o].id = event[d].id /\ calls[o] # <<>>
    THEN "Payment already processed"
    ELSE "Payment success"

\* handleWebhook, lines 172-175: the message of the success response.
SuccessMessage(d) == "Payment success"

\* handleWebhook, lines 172-175: writeJSON of the success message.
WriteSuccess(d) ==
  /\ pc[d] = "write"
  /\ Respond(d, StatusOK, SuccessMessage(d), <<>>, <<"Processed">>)
  /\ UNCHANGED <<now, event, hdr, sigErr, calls>>
  /\ UNCHANGED <<method, bodyLen, cvars, gvars>>

Next ==
  \/ Tick
  \/ \E d \in Deliveries, m \in {"POST", "GET"},
        len \in {MaxBodyBytes, MaxBodyBytes + 1}, payload \in Payloads :
       ReceiveWebhook(d, m, len, payload)
  \/ \E d \in Deliveries : \E header \in HeadersFor(event[d]) : ValidateSignature(d, header)
  \/ \E d \in Deliveries : ConstructEvent(d)
  \/ \E d \in Deliveries : Dispatch(d)
  \/ \E d \in Deliveries : SendConfirmationEmail(d)
  \/ \E d \in Deliveries : UpdatePaymentStatus(d)
  \/ \E d \in Deliveries : WriteSuccess(d)

Spec == Init /\ [][Next]_vars

\* ---------------------------------------------------- checkout handler
\* The checkout handler returns having written `code` and `text`.
CheckoutRespond(code, text) ==
  /\ cpc' = "done"
  /\ cstatus' = code
  /\ cbody' = text

\* handleCreateCheckoutSession, lines 80-85: parse the form and the quantity.
\* value[0:] is the whole string, the empty one included.
ParseQuantity(value) ==
  /\ cpc = "idle"
  /\ form' = value
  /\ LET r == ParseInt(SubSeq(value, 1, Len(value)))
     IN IF r.err
          THEN /\ CheckoutRespond(StatusInternalServerError, "error parsing quantity")
               /\ UNCHANGED quantity
          ELSE /\ cpc' = "call"
               /\ quantity' = r.val
               /\ UNCHANGED <<cstatus, cbody>>
  /\ UNCHANGED <<sessions, cout, remote>>
  /\ UNCHANGED <<wvars, gvars>>

\* session.New called again when it failed.
SessionNewRetry(accepted, url) ==
  /\ cpc = "call"
  /\ sessions' = Append(sessions, CheckoutSessionParams(quantity))
  /\ remote' = IF accepted THEN [ok |-> TRUE, url |-> url] ELSE NoSession
  /\ IF accepted
       THEN CheckoutRespond(StatusSeeOther, url)
       ELSE UNCHANGED <<cpc, cstatus, cbody>>
  /\ UNCHANGED <<form, quantity, cout>>
  /\ UNCHANGED <<wvars, gvars>>

\* handleCreateCheckoutSession, lines 99-105: session.New fails (accepted =
\* FALSE) or answers with a session whose URL is url.
SessionNew(accepted, url) ==
  /\ cpc = "call"
  /\ sessions' = Append(sessions, CheckoutSessionParams(quantity))
  /\ remote' = IF accepted THEN [ok |-> TRUE, url |-> url] ELSE NoSession
  /\ IF accepted
       THEN CheckoutRespond(StatusSeeOther, remote'.url)
       ELSE CheckoutRespond(StatusInternalServerError, "error while creating session")
  /\ UNCHANGED <<form, quantity, cout>>
  /\ UNCHANGED <<wvars, gvars>>

\* The next checkout request arrives.
NextRequest ==
  /\ cpc = "done"
  /\ cpc' = "idle"
  /\ form' = <<>>
  /\ quantity' = 0
  /\ sessions' = <<>>
  /\ cstatus' = NoStatus
  /\ cbody' = ""
  /\ cout' = <<>>
  /\ remote' = NoSession
  /\ UNCHANGED <<wvars, gvars>>

\* ------------------------------------------------------ lookup handlers
\* handleConfig, lines 49-67: the error of price.Get is discarded; on failure
\* p is the empty stripe.Price the call allocated, and its zero fields are
\* written as JSON with the implicit status 200.
HandleConfig(m, failed) ==
  /\ gpc = "idle"
  /\ gpc' = "done"
  /\ ghandler' = "handleConfig"
  /\ IF m # "GET"
       THEN /\ gfailed' = FALSE
            /\ gstatus' = StatusMethodNotAllowed
            /\ gbody' = "Method Not Allowed"
       ELSE /\ gfailed' = failed
            /\ gstatus' = StatusOK
            /\ gbody' = IF failed THEN "config of the empty price" ELSE "config"
  /\ gout' = <<>>
  /\ UNCHANGED <<wvars, cvars>>

\* handleCheckoutSession, lines 69-77: the error of session.Get is discarded
\* and whatever session the call left is written as JSON with status 200.
HandleCheckoutSession(m, failed) ==
  /\ gpc = "idle"
  /\ gpc' = "done"
  /\ ghandler' = "handleCheckoutSession"
  /\ IF m # "GET"
       THEN /\ gfailed' = FALSE
            /\ gstatus' = StatusMethodNotAllowed
            /\ gbody' = "Method Not Allowed"
       ELSE /\ gfailed' = failed
            /\ gstatus' = StatusOK
            /\ gbody' = IF failed THEN "the empty session" ELSE "session"
  /\ gout' = <<>>
  /\ UNCHANGED <<wvars, cvars>>

\* The next lookup request arrives.
NextLookup ==
  /\ gpc = "done"
  /\ gpc' = "idle"
  /\ ghandler' = ""
  /\ gfailed' = FALSE
  /\ gstatus' = NoStatus
  /\ gbody' = ""
  /\ gout' = <<>>
  /\ UNCHANGED <<wvars, cvars>>

NextCheckout ==
  \/ \E value \in FormValues : ParseQuantity(value)
  \/ \E accepted \in BOOLEAN, url \in SessionURLs : SessionNew(accepted, url)
  \/ NextRequest
  \/ \E m \in {"GET", "POST"}, failed \in BOOLEAN : HandleConfig(m, failed)
  \/ \E m \in {"GET", "POST"}, failed \in BOOLEAN : HandleCheckoutSession(m, failed)
  \/ NextLookup

SpecCheckout == Init /\ [][NextCheckout]_vars

\* ================================================================ claims
\* A delivery passed signature verification: ValidatePayload and
\* ConstructEvent both returned no error.
Verified(d) == \E i \in 1..Len(stages[d]) : stages[d][i] = "Constructed"

Finished(d) == pc[d] \in {"done", "panicked"}

\* The calls of notifier function fn made for event id across all deliveries.
Invocations(id, fn) ==
  { <<d, i>> \in Deliveries \X (1..2) :
      /\ event[d].id = id
      /\ i <= Len(calls[d])
      /\ calls[d][i].fn = fn }

NotifierFns == {"sendConfirmationEmail", "updatePaymentStatus"}

\* The header of d carries exactly the signature key k makes over d's payload.
SignedWith(d, k) ==
  /\ hdr[d].form = "signed"
  /\ hdr[d].v1 = {ComputeSignature(hdr[d].t, event[d], k)}

\* C1: however often a verified checkout.session.completed event is
\* delivered, each notifier function is invoked at most once for its event id.
C1_NotifiedOncePerEvent ==
  \A e \in Events : \A fn \in NotifierFns : Cardinality(Invocations(e.id, fn)) <= 1

\* C2: two deliveries of the same event id are never both past the dedup gate,
\* in the section that invokes the Side-Effect Notifier, at the same time.
InNotifierSection(d) == pc[d] \in {"email", "update", "write"}
C2_OneDeliveryPastGate ==
  \A d1, d2 \in Deliveries :
    (d1 # d2 /\ event[d1].id = event[d2].id) =>
       ~(InNotifierSection(d1) /\ InNotifierSection(d2))

\* C3: a delivery whose signature verification failed is answered with 400 and
\* the notifier is not invoked for it; a notifier invocation implies that the
\* delivery passed verification; a payload signed with a secret other than the
\* configured one never passes.
C3_UnverifiedNeverNotified ==
  \A d \in Deliveries :
    /\ calls[d] # <<>> => (Verified(d) /\ sigErr[d] = ErrNil)
    /\ sigErr[d] \notin {Unchecked, ErrNil} =>
         (pc[d] = "done" /\ status[d] = StatusBadRequest /\ calls[d] = <<>>)
    /\ (\E k \in Secrets \ {WebhookSecret} : SignedWith(d, k)) =>
         (sigErr[d] \notin {Unchecked, ErrNil} /\ status[d] = StatusBadRequest)
C3_Witness ==
  \E d \in Deliveries :
    /\ SignedWith(d, "S1")
    /\ sigErr[d] = ErrNoValidSignature
    /\ pc[d] = "done" /\ status[d] = StatusBadRequest /\ calls[d] = <<>>

\* C4: a delivery's payload is decoded (successfully or not) only after its
\* signature has been validated.
C4_ParsedOnlyAfterSignature ==
  \A d \in Deliveries : \A i \in 1..Len(stages[d]) :
    stages[d][i] \in {"Parsed", "ParseFailed"} =>
      \E j \in 1..(i - 1) : stages[d][j] = "SignatureValidated"

\* C5: the remote session-creation call is made only for a quantity form value
\* that denotes an integer >= 1.
PositiveQuantity(value) == ~ParseInt(value).err /\ ParseInt(value).val >= 1
C5_RemoteCallOnlyForPositiveQuantity ==
  sessions # <<>> => PositiveQuantity(form)

\* C6: a checkout request makes at most one session.New call; when the call
\* fails the request ends with status 500 and no second call.
C6_AtMostOneRemoteCall ==
  /\ Len(sessions) <= 1
  /\ cpc = "call" => sessions = <<>>
  /\ (sessions # <<>> /\ cstatus # StatusSeeOther) =>
       (cpc = "done" /\ cstatus = StatusInternalServerError
        /\ cbody = "error while creating session")
C6_Witness ==
  /\ cpc = "done"
  /\ Len(sessions) = 1
  /\ cstatus = StatusInternalServerError
  /\ cbody = "error while creating session"

\* C7: a validation step that runs on a signed header whose timestamp is older
\* than the tolerance ends the delivery with ErrTooOld and status 400, the
\* correct signature notwithstanding, and no delivery rejected as too old has
\* a notifier invocation.
C7_StepRejectsExpired ==
  \A d \in Deliveries :
    (/\ pc[d] \in {"validate", "construct"}
     /\ pc'[d] # pc[d]
     /\ hdr'[d].form = "signed"
     /\ now - hdr'[d].t > DefaultTolerance)
    => (/\ sigErr'[d] = ErrTooOld
        /\ pc'[d] = "done"
        /\ status'[d] = StatusBadRequest
        /\ calls'[d] = <<>>)
C7_ExpiredRejected ==
  /\ [](\A d \in Deliveries :
          sigErr[d] = ErrTooOld =>
            (pc[d] = "done" /\ status[d] = StatusBadRequest /\ calls[d] = <<>>))
  /\ [][C7_StepRejectsExpired]_vars
C7_Witness ==
  \E d \in Deliveries :
    /\ SignedWith(d, WebhookSecret)
    /\ sigErr[d] = ErrTooOld
    /\ pc[d] = "done" /\ status[d] = StatusBadRequest /\ calls[d] = <<>>

\* C8: every event id for which the notifier has been invoked is recorded in
\* the ProcessedEventLog.
C8_NotifiedImpliesLogged ==
  \A d \in Deliveries : calls[d] # <<>> => event[d].id \in ProcessedEventLog

\* C9: the dispatch of a verified event of another type than
\* checkout.session.completed logs the type, invokes no notifier function,
\* changes nothing outside its own delivery and is answered with 200.
OtherType(d) == event[d].type # "checkout.session.completed"
C9_StepOtherType ==
  \A d \in Deliveries :
    (pc[d] = "dispatch" /\ OtherType(d) /\ pc'[d] # pc[d]) =>
      /\ pc'[d] = "done" /\ status'[d] = StatusOK /\ body'[d] = ""
      /\ calls' = calls /\ now' = now /\ cvars' = cvars
      /\ out'[d] = Append(out[d], Line("stdout", "Received event of type"))
      /\ \A o \in Deliveries \ {d} :
           /\ pc'[o] = pc[o] /\ status'[o] = status[o] /\ body'[o] = body[o]
           /\ out'[o] = out[o] /\ event'[o] = event[o]
C9_OtherTypeNoEffect ==
  /\ [](\A d \in Deliveries :
          (Verified(d) /\ OtherType(d) /\ pc[d] # "dispatch") =>
            (pc[d] = "done" /\ status[d] = StatusOK /\ calls[d] = <<>>))
  /\ [][C9_StepOtherType]_vars
C9_Witness ==
  \E d \in Deliveries :
    /\ Verified(d) /\ event[d].id = "evt_other"
    /\ pc[d] = "done" /\ status[d] = StatusOK /\ calls[d] = <<>>

LastStage(d) == IF stages[d] = <<>> THEN "" ELSE stages[d][Len(stages[d])]

C12_SecretNeverLogged ==
  \A d \in Deliveries : \A i \in 1..Len(out[d]) :
    out[d][i].what \notin {"signatureHeader", "webhookSecret"}

\* C13: a lookup or checkout request on which an operation failed ends with a
\* client-visible error status or with a logged message.
CheckoutFailed ==
  cpc = "done" /\ (ParseInt(form).err \/ (sessions # <<>> /\ ~remote.ok))
C13_NoErrorSwallowed ==
  /\ (gpc = "done" /\ gfailed) => (gstatus >= StatusBadRequest \/ gout # <<>>)
  /\ CheckoutFailed => (cstatus >= StatusBadRequest \/ cout # <<>>)

\* C14: a checkout request rejected for its quantity is answered with a 4xx
\* status and a message; one that failed at the processor with a 5xx status.
C14_ClientErrorIs4xx ==
  /\ (cpc = "done" /\ ParseInt(form).err) =>
       (cstatus \in 400..499 /\ cbody # "")
  /\ (cpc = "done" /\ sessions # <<>> /\ ~remote.ok) => cstatus \in 500..599

\* C15: a checkout request whose session.New call succeeded is answered with
\* 303 and the Location the processor returned; the one call it made carried
\* mode payment and a single line item with the configured price and the
\* quantity of the request.
C15_RedirectToSession ==
  (cpc = "done" /\ remote.ok) =>
    /\ cstatus = StatusSeeOther
    /\ cbody = remote.url
    /\ Len(sessions) = 1
    /\ sessions[1].Mode = "payment"
    /\ Len(sessions[1].LineItems) = 1
    /\ sessions[1].LineItems[1].Price = PriceID
    /\ ~ParseInt(form).err
    /\ sessions[1].LineItems[1].Quantity = ParseInt(form).val
    /\ form = <<"2">> => sessions[1].LineItems[1].Quantity = 2
C15_Witness ==
  /\ cpc = "done" /\ remote.ok
  /\ form = <<"2">>
  /\ cstatus = StatusSeeOther
  /\ cbody = "https://checkout.example/c/1"

\* C16: a POST delivery whose body is longer than 65536 bytes ends at the body
\* read with 503, nothing parsed, verified or notified; a body of 65536 bytes
\* is read and handed to the parser.
C16_BodyCap ==
  \A d \in Deliveries :
    method[d] = "POST" =>
      /\ bodyLen[d] > 65536 =>
           /\ pc[d] = "done" /\ status[d] = StatusServiceUnavailable
           /\ stages[d] = <<"Received">>
           /\ event[d] = NoEvent /\ sigErr[d] = Unchecked /\ calls[d] = <<>>
      /\ bodyLen[d] <= 65536 =>
           /\ status[d] # StatusServiceUnavailable
           /\ Len(stages[d]) >= 2
           /\ stages[d][2] \in {"Parsed", "ParseFailed"}
C16_Witness ==
  \E d1, d2 \in Deliveries :
    /\ method[d1] = "POST" /\ bodyLen[d1] = 65537
    /\ pc[d1] = "done" /\ status[d1] = StatusServiceUnavailable
    /\ method[d2] = "POST" /\ bodyLen[d2] = 65536
    /\ pc[d2] = "done" /\ LastStage(d2) = "Processed"

\* C17: a verified checkout.session.completed delivery never aborts: once it
\* has left the handler it has a response, 200 or an error status.
C17_DispatchNeverAborts ==
  \A d \in Deliveries :
    (Verified(d) /\ IsCheckoutCompleted(event[d])) =>
      /\ pc[d] # "panicked"
      /\ Finished(d) => status[d] # NoStatus

\* C18: the notifier calls of a delivery are a prefix of sendConfirmationEmail
\* then updatePaymentStatus, both with the payment-result record of the
\* delivery's session; a finished delivery has both calls or none; the success
\* response is written only after both; a session object that cannot be
\* decoded gives no call and status 500.
PaymentResult(d) == ConfirmationEmailData(UnmarshalSession(event[d].data))
BothCalls(d) ==
  << [fn |-> "sendConfirmationEmail", arg |-> PaymentResult(d)],
     [fn |-> "updatePaymentStatus", arg |-> PaymentResult(d)] >>
C18_NotifierOrdered ==
  \A d \in Deliveries :
    /\ Len(calls[d]) <= 2
    /\ calls[d] = SubSeq(BothCalls(d), 1, Len(calls[d]))
    /\ Finished(d) => Len(calls[d]) \in {0, 2}
    /\ status[d] # NoStatus =>
         (Len(calls[d]) = 2 <=> (status[d] = StatusOK /\ body[d] = "Payment success"))
    /\ (Verified(d) /\ IsCheckoutCompleted(event[d]) /\ UnmarshalSession(event[d].data).err
        /\ pc[d] # "dispatch") =>
         (pc[d] = "done" /\ calls[d] = <<>> /\ status[d] = StatusInternalServerError)
C18_Witness ==
  \E d1, d2 \in Deliveries :
    /\ pc[d1] = "done" /\ status[d1] = StatusOK /\ body[d1] = "Payment success"
    /\ Len(calls[d1]) = 2
    /\ calls[d1][1].fn = "sendConfirmationEmail"
    /\ calls[d1][2].fn = "updatePaymentStatus"
    /\ calls[d1][1].arg = calls[d1][2].arg
    /\ calls[d1][1].arg.paymentIntentID = "pi_a"
    /\ event[d2].id = "evt_bad" /\ pc[d2] = "done"
    /\ status[d2] = StatusInternalServerError /\ calls[d2] = <<>>
====
